---- MODULE Spec2Model ----
(***************************************************************************)
(* Model of the face-attendance system: the attendance gate               *)
(* (AttendanceTab._mark_attendance_for_student, AttendanceManager,        *)
(* DatabaseManager), the recognition pipeline (FaceRecognitionModule)     *)
(* and the capture loop (AttendanceTab / RegisterTab / CameraHandler).    *)
(*                                                                         *)
(* Time is counted in whole seconds; a calendar day lasts DayLen seconds. *)
(* Embeddings are one-dimensional and distances are counted in units of   *)
(* 0.05, so that 1.0 is DistUnit = 20 and the default tolerance 0.6 is 12.*)
(***************************************************************************)
EXTENDS Integers, Sequences, FiniteSets, TLC

\* ---------------------------------------------------------------- bounds
MaxTime == 6
DayLen == 6

MaxFrames == 4
MaxStride == 3
MaxGallery == 3
MaxThreads == 2

\* inputs
Probes == {0, 8, 19, 40}
InitTolerances == {0, 12, 25}
ToleranceInputs == {5, 6, 20, 21}

\* ------------------------------------------------------- program constants
cooldown_seconds == 5
RecentMaxLen == 10

StudentIds == {1, 2}
Days == 0..(MaxTime \div DayLen)

\* The students that can be registered: student_id, name, face_encoding.
\* Names are chosen so that ORDER BY name differs from registration order.
Roster ==
  { [student_id |-> 1, name |-> 2, face_encoding |-> 0],
    [student_id |-> 2, name |-> 1, face_encoding |-> 19] }

VARIABLES
  students,            \* rows of table students
  attendance,          \* rows of table attendance, grouped by (student_id, date)
  now,                 \* the host's clock (datetime.now()), in seconds
  recent_recognitions, \* AttendanceTab.recent_recognitions (deque, maxlen 10)
  o_pc,                \* position of the capture thread inside an offer
  o_sid,               \* student_id of the offer in progress / of the last offer
  o_time,              \* current_time taken at the start of that offer
  o_outcome,           \* outcome of the last finished offer
  o_marked,            \* (history) a record for (o_sid, today) was stored when the offer started
  last_step,           \* (history) what the last step was: an offer's start, an insert, other

  known_face_encodings, \* FaceRecognitionModule.known_face_encodings
  known_face_names,    \* FaceRecognitionModule.known_face_names
  known_face_ids,      \* FaceRecognitionModule.known_face_ids
  tolerance,           \* FaceRecognitionModule.tolerance, in units of 0.05
  process_every_n_frames, \* FaceRecognitionModule.process_every_n_frames
  frame_count,         \* FaceRecognitionModule.frame_count
  results,             \* what the last recognize_faces call returned
  r_processed,         \* (history) the last recognize_faces call ran the detector
  last_load,           \* (history) the last load_known_faces call got no embedding, and replaced entries
  recog,               \* the capture thread inside recognize_faces: position and what it read
  loader,              \* the UI thread inside load_known_faces: position, student list, index
  cam,                 \* CameraHandler: capture, is_running, current_frame
  att_tab,             \* AttendanceTab: camera_active, recognition_active, is_updating, update_thread
  reg_tab,             \* RegisterTab: camera_active, is_updating, update_thread
  threads,             \* the capture threads: the tab that started each and its position
  ui,                  \* the UI thread: idle, or inside the join of a _stop_camera
  cam_step,            \* (history) the last step of a tab or of a capture thread
  photos               \* the files <student_id>.jpg of StudentManager.image_dir: their content

gateVars == <<students, attendance, now, recent_recognitions, o_pc, o_sid, o_time,
              o_outcome, o_marked, last_step>>

recogVars == <<known_face_encodings, known_face_names, known_face_ids, tolerance,
               process_every_n_frames, frame_count, results, r_processed, last_load>>

raceVars == <<recog, loader>>

camVars == <<cam, att_tab, reg_tab, threads, ui, cam_step>>

fileVars == <<photos>>

vars == <<gateVars, recogVars, raceVars, camVars, fileVars>>

\* ------------------------------------------------------------ storage layer
Today(t) == t \div DayLen

TimeOfDay(t) == t % DayLen

Keys == StudentIds \X Days

\* no file of that name
NoPhoto == 0

\* what captured_frame can hold: a picture of person 1 or of person 2
Frames == {1, 2}

\* the photo files after the students were registered from the register tab,
\* each with a picture of the student
StoredPhotos(studs) ==
  [sid \in StudentIds |-> IF \E s \in studs : s.student_id = sid THEN sid ELSE NoPhoto]

\* RegisterTab._register_student, lines 401-408: cv2.imwrite of captured_frame to
\* image_dir/<student_id>.jpg
save_photo(ph, sid, frame) == [ph EXCEPT ![sid] = frame]

Registered(studs, sid) == \E s \in studs : s.student_id = sid

HasRecord(att, sid, d) == Len(att[<<sid, d>>]) > 0

\* DatabaseManager.student_exists answering True for every id
student_exists_always(studs, sid) == TRUE

\* DatabaseManager.student_exists
student_exists(studs, sid) == \E s \in studs : s.student_id = sid

\* DatabaseManager.is_attendance_marked answering False (its failure path) always
is_attendance_marked_never(att, sid, d) == FALSE

\* DatabaseManager.is_attendance_marked
is_attendance_marked(att, sid, d) == Len(att[<<sid, d>>]) > 0

\* UNIQUE(student_id, date) of table attendance: the insert raises IntegrityError
IntegrityError(att, sid, d) == Len(att[<<sid, d>>]) > 0

InsertRow(att, sid, d, t, st) ==
  [att EXCEPT ![<<sid, d>>] = Append(@, [time |-> t, status |-> st])]

\* DatabaseManager.mark_attendance with an insert that never raises IntegrityError
db_mark_attendance_noconstraint(att, sid, d, t, st, fail) ==
  IF fail
    THEN [ok |-> FALSE, att |-> att]
    ELSE [ok |-> TRUE, att |-> InsertRow(att, sid, d, t, st)]

\* DatabaseManager.mark_attendance with INSERT OR REPLACE instead of INSERT
db_mark_attendance_replace(att, sid, d, t, st, fail) ==
  IF fail
    THEN [ok |-> FALSE, att |-> att]
    ELSE [ok |-> TRUE,
          att |-> [att EXCEPT ![<<sid, d>>] = <<[time |-> t, status |-> st]>>]]

\* DatabaseManager.mark_attendance storing status Absent whatever status is given
db_mark_attendance_absent(att, sid, d, t, st, fail) ==
  IF IntegrityError(att, sid, d) \/ fail
    THEN [ok |-> FALSE, att |-> att]
    ELSE [ok |-> TRUE, att |-> InsertRow(att, sid, d, t, "Absent")]

\* DatabaseManager.mark_attendance: the result and the table after the call.
\* fail: the statement raised another exception (storage unavailable).
db_mark_attendance(att, sid, d, t, st, fail) ==
  IF IntegrityError(att, sid, d) \/ fail
    THEN [ok |-> FALSE, att |-> att]
    ELSE [ok |-> TRUE, att |-> InsertRow(att, sid, d, t, st)]

OtherStep == [op |-> "other"]

OfferStep == [op |-> "offer"]

InsertStep(by, sid, d, dup, ok) ==
  [op |-> "insert", by |-> by, student_id |-> sid, date |-> d, dup |-> dup, ok |-> ok]

\* ------------------------------------------------------------ the attendance gate
ManualTimes == {0}

ManualStatuses == {"Late"}

\* the cooldown scan with the comparison reversed
InCooldown_reversed(recent, sid, t) ==
  \E i \in 1..Len(recent) :
    recent[i][1] = sid /\ t - recent[i][2] > cooldown_seconds

\* the cooldown scan suppressing up to and including the full cooldown age
InCooldown_inclusive(recent, sid, t) ==
  \E i \in 1..Len(recent) :
    recent[i][1] = sid /\ t - recent[i][2] <= cooldown_seconds

\* the cooldown scan of _mark_attendance_for_student
InCooldown(recent, sid, t) ==
  \E i \in 1..Len(recent) :
    recent[i][1] = sid /\ t - recent[i][2] < cooldown_seconds

\* a list append with no maximum length
deque_append_unbounded(recent, e) == Append(recent, e)

\* deque(maxlen=10).append
deque_append(recent, e) ==
  IF Len(recent) >= RecentMaxLen THEN Append(Tail(recent), e) ELSE Append(recent, e)

HasEntry(recent, sid) == \E i \in 1..Len(recent) : recent[i][1] = sid

\* ends the offer in progress with the given outcome
Finish(outcome) ==
  /\ o_pc' = "idle"
  /\ o_outcome' = outcome

\* _mark_attendance_for_student, the cooldown check
MarkAttendanceForStudent(sid) ==
  /\ o_pc = "idle"
  /\ o_sid' = sid
  /\ o_time' = now
  /\ o_marked' = HasRecord(attendance, sid, Today(now))
  /\ IF InCooldown(recent_recognitions, sid, now)
       THEN Finish("SuppressedCooldown")
       ELSE o_pc' = "exists" /\ o_outcome' = "None"
  /\ last_step' = OfferStep
  /\ UNCHANGED <<students, attendance, now, recent_recognitions>>

\* AttendanceManager.mark_attendance, the student_exists check
AM_StudentExists ==
  /\ o_pc = "exists"
  /\ IF student_exists(students, o_sid)
       THEN o_pc' = "marked" /\ UNCHANGED o_outcome
       ELSE Finish("StudentNotFound")
  /\ last_step' = OtherStep
  /\ UNCHANGED <<students, attendance, now, recent_recognitions, o_sid, o_time, o_marked>>

\* AttendanceManager.mark_attendance, the is_attendance_marked check
AM_IsAttendanceMarked ==
  /\ o_pc = "marked"
  /\ IF is_attendance_marked(attendance, o_sid, Today(now))
       THEN Finish("AlreadyMarked")
       ELSE o_pc' = "insert" /\ UNCHANGED o_outcome
  /\ last_step' = OtherStep
  /\ UNCHANGED <<students, attendance, now, recent_recognitions, o_sid, o_time, o_marked>>

\* a failed insert is attempted once more
after_insert_retry(ok) == IF ok THEN "push" ELSE "insert"

\* where the offer goes after db.mark_attendance returned
after_insert(ok) == IF ok THEN "push" ELSE "idle"

\* AttendanceManager.mark_attendance, the insert
AM_MarkAttendance(fail) ==
  /\ o_pc = "insert"
  /\ LET r == db_mark_attendance(attendance, o_sid, Today(now), TimeOfDay(now), "Present", fail)
     IN /\ attendance' = r.att
        /\ last_step' = InsertStep("offer", o_sid, Today(now), HasRecord(attendance, o_sid, Today(now)), r.ok)
        /\ o_pc' = after_insert(r.ok)
        /\ o_outcome' = IF o_pc' = "idle" THEN "WriteFailed" ELSE o_outcome
  /\ UNCHANGED <<students, now, recent_recognitions, o_sid, o_time, o_marked>>

\* _mark_attendance_for_student, after a successful mark: remember the recognition
RecordRecognition ==
  /\ o_pc = "push"
  /\ recent_recognitions' = deque_append(recent_recognitions, <<o_sid, o_time>>)
  /\ Finish("Marked")
  /\ last_step' = OtherStep
  /\ UNCHANGED <<students, attendance, now, o_sid, o_time, o_marked>>

\* ------------------------------------------------------------ the UI thread
\* AttendanceManager.manual_attendance_entry
manual_attendance_entry(sid, d, t, st, fail) ==
  /\ IF ~student_exists(students, sid)
       THEN /\ UNCHANGED attendance
            /\ last_step' = OtherStep
       ELSE LET r == db_mark_attendance(attendance, sid, d, t, st, fail)
            IN /\ attendance' = r.att
               /\ last_step' = InsertStep("manual", sid, d, HasRecord(attendance, sid, d), r.ok)
  /\ UNCHANGED <<students, now, recent_recognitions, o_pc, o_sid, o_time, o_outcome, o_marked>>

\* DatabaseManager.add_student (student_id is unique)
add_student(rec) ==
  /\ ~student_exists(students, rec.student_id)
  /\ students' = students \cup {rec}
  /\ last_step' = OtherStep
  /\ UNCHANGED <<attendance, now, recent_recognitions, o_pc, o_sid, o_time, o_outcome, o_marked>>

\* the process is restarted: the capture thread and the in-memory buffer are gone
Restart ==
  /\ recent_recognitions' = <<>>
  /\ o_pc' = "idle"
  /\ o_sid' = 0
  /\ o_time' = 0
  /\ o_outcome' = "None"
  /\ o_marked' = FALSE
  /\ last_step' = OtherStep
  /\ UNCHANGED <<students, attendance, now>>

\* one second passes
Tick ==
  /\ now < MaxTime
  /\ now' = now + 1
  /\ last_step' = OtherStep
  /\ UNCHANGED <<students, attendance, recent_recognitions, o_pc, o_sid, o_time, o_outcome, o_marked>>

GateInit ==
  /\ students = {}
  /\ photos = StoredPhotos({})
  /\ attendance = [k \in Keys |-> <<>>]
  /\ now = 0
  /\ recent_recognitions = <<>>
  /\ o_pc = "idle"
  /\ o_sid = 0
  /\ o_time = 0
  /\ o_outcome = "None"
  /\ o_marked = FALSE
  /\ last_step = OtherStep

GateNext ==
  \/ \E sid \in StudentIds : MarkAttendanceForStudent(sid)
  \/ AM_StudentExists
  \/ AM_IsAttendanceMarked
  \/ \E fail \in BOOLEAN : AM_MarkAttendance(fail)
  \/ RecordRecognition
  \/ \E sid \in StudentIds, d \in Days, t \in ManualTimes, st \in ManualStatuses, fail \in BOOLEAN :
       manual_attendance_entry(sid, d, t, st, fail)
  \/ \E rec \in Roster : add_student(rec)
  \/ Restart
  \/ Tick

\* ------------------------------------------------------------ the recognition pipeline
\* 1.0 on the distance scale (one unit is 0.05)
DistUnit == 20

DefaultTolerance == 12

MinTolerance == 6

MaxTolerance == 20

\* face_encoding of a student record without an embedding (None)
NoEncoding == -1

\* student_id of a result without identity (None)
NoId == 0

\* name of a result without identity ("Unknown")
UnknownName == 0

\* student records that get_all_students can return
RecogStudents ==
  Roster \cup { [student_id |-> 3, name |-> 3, face_encoding |-> 16],
                [student_id |-> 4, name |-> 4, face_encoding |-> NoEncoding] }

Abs(x) == IF x < 0 THEN 0 - x ELSE x

\* face_recognition.face_distance: the Euclidean distance to every known encoding
face_distance(encs, probe) == [i \in 1..Len(encs) |-> Abs(encs[i] - probe)]

\* face_recognition.compare_faces accepting every known encoding
compare_faces_all(encs, probe, tol) == [i \in 1..Len(encs) |-> TRUE]

\* face_recognition.compare_faces: distance <= tolerance, per known encoding
compare_faces(encs, probe, tol) ==
  [i \in 1..Len(encs) |-> face_distance(encs, probe)[i] <= tol]

\* np.argmax in place of np.argmin
argmax(d) ==
  CHOOSE i \in 1..Len(d) :
    /\ \A j \in 1..Len(d) : d[i] >= d[j]
    /\ \A j \in 1..(i - 1) : d[j] < d[i]

\* np.argmin: the first index of the smallest distance
argmin(d) ==
  CHOOSE i \in 1..Len(d) :
    /\ \A j \in 1..Len(d) : d[i] <= d[j]
    /\ \A j \in 1..(i - 1) : d[j] > d[i]

Unknown(probe) ==
  [name |-> UnknownName, student_id |-> NoId, confidence |-> 0, is_known |-> FALSE,
   probe |-> probe, matched |-> NoEncoding, entry |-> NoEncoding]

RaisedError == [error |-> TRUE]

\* recognize_faces, lines 139-160, for one detected face.  cmp_encs is the list
\* that compare_faces read, dist_encs the list that face_distance read, names and
\* ids the lists that were indexed; a single-threaded call reads the same gallery
\* four times.  The result is a result dictionary or RaisedError.
match_face(cmp_encs, dist_encs, names, ids, probe, tol) ==
  LET matches == compare_faces(cmp_encs, probe, tol)
      dists == face_distance(dist_encs, probe)
  IN IF ~(\E i \in 1..Len(matches) : matches[i])
       THEN Unknown(probe)
       ELSE IF Len(dists) = 0
         THEN RaisedError
         ELSE LET best == argmin(dists)
              IN IF best > Len(matches)
                   THEN RaisedError
                   ELSE IF ~matches[best]
                     THEN Unknown(probe)
                     ELSE IF best > Len(names) \/ best > Len(ids)
                       THEN RaisedError
                       ELSE [name |-> names[best], student_id |-> ids[best],
                             confidence |-> DistUnit - dists[best],
                             is_known |-> ids[best] # NoId,
                             probe |-> probe, matched |-> cmp_encs[best],
                             entry |-> dist_encs[best]]

\* the frame-skipping test with the comparison reversed
skip_frame_reversed(count, stride) == count % stride = 0

\* recognize_faces, line 116: the frame is skipped
skip_frame(count, stride) == count % stride # 0

HasEncoding(student) == student.face_encoding # NoEncoding

\* load_known_faces without lines 43-45: the entries are appended to the lists
\* that are there
load_known_faces_noclear(studs) ==
  LET kept == SelectSeq(studs, HasEncoding)
  IN [encodings |-> known_face_encodings \o [i \in 1..Len(kept) |-> kept[i].face_encoding],
      names |-> known_face_names \o [i \in 1..Len(kept) |-> kept[i].name],
      ids |-> known_face_ids \o [i \in 1..Len(kept) |-> kept[i].student_id]]

\* load_known_faces that keeps the lists when no student has an embedding
load_known_faces_unless_empty(studs) ==
  LET kept == SelectSeq(studs, HasEncoding)
  IN IF Len(kept) = 0
       THEN [encodings |-> known_face_encodings, names |-> known_face_names,
             ids |-> known_face_ids]
       ELSE [encodings |-> [i \in 1..Len(kept) |-> kept[i].face_encoding],
             names |-> [i \in 1..Len(kept) |-> kept[i].name],
             ids |-> [i \in 1..Len(kept) |-> kept[i].student_id]]

\* load_known_faces: the three lists built from a student list
load_known_faces(studs) ==
  LET kept == SelectSeq(studs, HasEncoding)
  IN [encodings |-> [i \in 1..Len(kept) |-> kept[i].face_encoding],
      names |-> [i \in 1..Len(kept) |-> kept[i].name],
      ids |-> [i \in 1..Len(kept) |-> kept[i].student_id]]

RecognizeStep == [op |-> "recognize"]

\* recognize_faces as one call: faces are the encodings of the detected faces,
\* detector_fails says that detection or encoding raised
RecognizeFaces(faces, detector_fails) ==
  /\ frame_count < MaxFrames
  /\ frame_count' = frame_count + 1
  /\ IF skip_frame(frame_count', process_every_n_frames)
       THEN results' = <<>> /\ r_processed' = FALSE
       ELSE LET found == [i \in 1..Len(faces) |->
                            match_face(known_face_encodings, known_face_encodings,
                                       known_face_names, known_face_ids, faces[i], tolerance)]
            IN /\ r_processed' = TRUE
               /\ results' = IF detector_fails \/ (\E i \in 1..Len(found) : found[i] = RaisedError)
                               THEN <<>> ELSE found
  /\ last_step' = RecognizeStep
  /\ UNCHANGED <<known_face_encodings, known_face_names, known_face_ids, tolerance,
                 process_every_n_frames, last_load>>

\* no student of the sequence has an embedding
NoEmbedding(studs) == \A i \in 1..Len(studs) : studs[i].face_encoding = NoEncoding

\* a load_known_faces call: its argument, and whether the call before it (with no
\* other call in between) had the same argument
LoadStep(studs) ==
  [op |-> "load", studs |-> studs,
   again |-> last_step.op = "load" /\ last_step.studs = studs]

NeverLoaded == [none |-> FALSE, replaced |-> FALSE]

\* load_known_faces as one call
LoadKnownFaces(studs) ==
  /\ LET g == load_known_faces(studs)
     IN /\ known_face_encodings' = g.encodings
        /\ known_face_names' = g.names
        /\ known_face_ids' = g.ids
  /\ last_step' = LoadStep(studs)
  /\ last_load' = [none |-> NoEmbedding(studs),
                   replaced |-> NoEmbedding(studs) /\ known_face_encodings # <<>>]
  /\ UNCHANGED <<tolerance, process_every_n_frames, frame_count, results, r_processed>>

\* set_tolerance with the bounds of the range excluded
tolerance_in_range_exclusive(t) == MinTolerance < t /\ t < MaxTolerance

\* set_tolerance, line 279: 0.3 <= tolerance <= 1.0
tolerance_in_range(t) == MinTolerance <= t /\ t <= MaxTolerance

\* a set_tolerance call: its argument and what it returned
ToleranceStep(t, ok) == [op |-> "set_tolerance", value |-> t, ok |-> ok]

\* set_tolerance
set_tolerance(t) ==
  /\ tolerance' = IF tolerance_in_range(t) THEN t ELSE tolerance
  /\ last_step' = ToleranceStep(t, tolerance_in_range(t))
  /\ UNCHANGED <<known_face_encodings, known_face_names, known_face_ids,
                 process_every_n_frames, frame_count, results, r_processed, last_load>>

\* reset_frame_count
reset_frame_count ==
  /\ frame_count' = 0
  /\ last_step' = OtherStep
  /\ UNCHANGED <<known_face_encodings, known_face_names, known_face_ids, tolerance,
                 process_every_n_frames, results, r_processed, last_load>>

\* FaceRecognitionModule.__init__ with the configured tolerance and stride
RecogInit(tolerances, strides) ==
  /\ known_face_encodings = <<>>
  /\ known_face_names = <<>>
  /\ known_face_ids = <<>>
  /\ tolerance \in tolerances
  /\ process_every_n_frames \in strides
  /\ frame_count = 0
  /\ results = <<>>
  /\ r_processed = FALSE
  /\ last_load = NeverLoaded

\* sequences over S without repetition, of length at most n
RECURSIVE ListsOf(_, _)
ListsOf(S, n) ==
  IF n = 0 THEN {<<>>}
  ELSE {<<>>} \cup UNION { { <<x>> \o l : l \in ListsOf(S \ {x}, n - 1) } : x \in S }

Faces == {<<>>} \cup { <<p>> : p \in Probes } \cup { <<p, q>> : p \in {8}, q \in {0, 40} }

\* ------------------------------------------------------------ reload against recognition
IdleRecog == [pc |-> "idle", probe |-> 0, cmp |-> <<>>, dist |-> <<>>, names |-> <<>>]

IdleLoader == [pc |-> "idle", studs |-> <<>>, i |-> 0]

RaceInit ==
  /\ recog = IdleRecog
  /\ loader = IdleLoader

\* DatabaseManager.get_all_students: the student rows ordered by name
RECURSIVE get_all_students(_)
get_all_students(studs) ==
  IF studs = {} THEN <<>>
  ELSE LET first == CHOOSE s \in studs : \A u \in studs : s.name <= u.name
       IN <<first>> \o get_all_students(studs \ {first})

gateFrozen ==
  <<attendance, now, recent_recognitions, o_pc, o_sid, o_time, o_outcome, o_marked, camVars,
    fileVars>>

\* recognize_faces, lines 113-117: count the frame, skip it or go on
R_Begin(probe) ==
  /\ recog.pc = "idle"
  /\ frame_count < MaxFrames
  /\ frame_count' = frame_count + 1
  /\ IF skip_frame(frame_count', process_every_n_frames)
       THEN /\ results' = <<>>
            /\ r_processed' = FALSE
            /\ last_step' = RecognizeStep
            /\ UNCHANGED recog
       ELSE /\ recog' = [IdleRecog EXCEPT !.pc = "compare", !.probe = probe]
            /\ last_step' = OtherStep
            /\ UNCHANGED <<results, r_processed>>
  /\ UNCHANGED <<known_face_encodings, known_face_names, known_face_ids, tolerance,
                 process_every_n_frames, last_load, loader, students, gateFrozen>>

\* recognize_faces, line 140: compare_faces reads known_face_encodings
R_CompareFaces ==
  /\ recog.pc = "compare"
  /\ recog' = [recog EXCEPT !.pc = "distance", !.cmp = known_face_encodings]
  /\ last_step' = OtherStep
  /\ UNCHANGED <<recogVars, loader, students, gateFrozen>>

\* recognize_faces, line 150: face_distance reads known_face_encodings
R_FaceDistance ==
  /\ recog.pc = "distance"
  /\ recog' = [recog EXCEPT !.pc = "name", !.dist = known_face_encodings]
  /\ last_step' = OtherStep
  /\ UNCHANGED <<recogVars, loader, students, gateFrozen>>

\* recognize_faces, line 157: known_face_names is indexed
R_Name ==
  /\ recog.pc = "name"
  /\ recog' = [recog EXCEPT !.pc = "id", !.names = known_face_names]
  /\ last_step' = OtherStep
  /\ UNCHANGED <<recogVars, loader, students, gateFrozen>>

\* recognize_faces, lines 158-173: known_face_ids is indexed, the result is returned
R_Id ==
  /\ recog.pc = "id"
  /\ LET r == match_face(recog.cmp, recog.dist, recog.names, known_face_ids,
                         recog.probe, tolerance)
     IN results' = IF r = RaisedError THEN <<>> ELSE <<r>>
  /\ r_processed' = TRUE
  /\ recog' = IdleRecog
  /\ last_step' = RecognizeStep
  /\ UNCHANGED <<known_face_encodings, known_face_names, known_face_ids, tolerance,
                 process_every_n_frames, frame_count, last_load, loader, students, gateFrozen>>

\* RegisterTab._register_student: the student is stored and the gallery reload starts
RegisterStudent(rec) ==
  /\ loader.pc = "idle"
  /\ ~student_exists(students, rec.student_id)
  /\ students' = students \cup {rec}
  /\ photos' = save_photo(photos, rec.student_id, rec.student_id)
  /\ loader' = [pc |-> "clear_encodings", studs |-> get_all_students(students'), i |-> 1]
  /\ last_step' = OtherStep
  /\ UNCHANGED <<recogVars, recog, attendance, now, recent_recognitions, o_pc, o_sid, o_time,
                 o_outcome, o_marked, camVars>>

\* AttendanceTab._reload_faces: the gallery reload starts
ReloadFaces ==
  /\ loader.pc = "idle"
  /\ loader' = [pc |-> "clear_encodings", studs |-> get_all_students(students), i |-> 1]
  /\ last_step' = OtherStep
  /\ UNCHANGED <<recogVars, recog, students, gateFrozen>>

\* load_known_faces, the position after the statement at position pc
AfterLoadStep(pc, studs, i) ==
  CASE pc = "clear_encodings" -> [pc |-> "clear_names", studs |-> studs, i |-> i]
    [] pc = "clear_names" -> [pc |-> "clear_ids", studs |-> studs, i |-> i]
    [] pc = "append_encoding" -> [pc |-> "append_name", studs |-> studs, i |-> i]
    [] pc = "append_name" -> [pc |-> "append_id", studs |-> studs, i |-> i]
    [] OTHER ->
         \* after clear_ids and append_id: the next student with an encoding, or the end
         LET j == IF pc = "append_id" THEN i + 1 ELSE i
             rest == {k \in j..Len(studs) : HasEncoding(studs[k])}
         IN IF rest = {} THEN IdleLoader
            ELSE [pc |-> "append_encoding", studs |-> studs,
                  i |-> CHOOSE k \in rest : \A m \in rest : k <= m]

\* load_known_faces, one statement of lines 43-51
L_Step ==
  /\ loader.pc # "idle"
  /\ known_face_encodings' =
       CASE loader.pc = "clear_encodings" -> <<>>
         [] loader.pc = "append_encoding" ->
              Append(known_face_encodings, loader.studs[loader.i].face_encoding)
         [] OTHER -> known_face_encodings
  /\ known_face_names' =
       CASE loader.pc = "clear_names" -> <<>>
         [] loader.pc = "append_name" -> Append(known_face_names, loader.studs[loader.i].name)
         [] OTHER -> known_face_names
  /\ known_face_ids' =
       CASE loader.pc = "clear_ids" -> <<>>
         [] loader.pc = "append_id" -> Append(known_face_ids, loader.studs[loader.i].student_id)
         [] OTHER -> known_face_ids
  /\ loader' = AfterLoadStep(loader.pc, loader.studs, loader.i)
  /\ last_step' = OtherStep
  /\ UNCHANGED <<tolerance, process_every_n_frames, frame_count, results, r_processed,
                 last_load, recog, students, gateFrozen>>

\* ------------------------------------------------------------ the capture loop
ThreadIds == 1..MaxThreads

\* update_thread = None
NoThread == 0

\* what the camera shows to recognize_faces: nobody, or student 1 beside a stranger
CamFaces == {<<>>, <<8, 40>>}

\* the thread is inside _update_camera_feed
Live(t) == threads[t].pc \in {"check", "read", "store", "recog", "body"}

CamStep(op) == [op |-> op]

CamInit ==
  /\ cam = [capture |-> "none", is_running |-> FALSE, current_frame |-> "none"]
  /\ att_tab = [camera_active |-> FALSE, recognition_active |-> FALSE, is_updating |-> FALSE,
            update_thread |-> NoThread]
  /\ reg_tab = [camera_active |-> FALSE, is_updating |-> FALSE, update_thread |-> NoThread]
  /\ threads = [t \in ThreadIds |-> [owner |-> "none", pc |-> "unborn"]]
  /\ ui = "idle"
  /\ cam_step = CamStep("init")

\* CameraHandler.start: the handler after the call; opened is what isOpened() answers
camera_start(c, opened) ==
  IF opened THEN [c EXCEPT !.capture = "open", !.is_running = TRUE]
  ELSE [c EXCEPT !.capture = "closed"]

\* CameraHandler.stop without the release of the device
camera_stop_norelease(c) == [c EXCEPT !.is_running = FALSE, !.current_frame = "none"]

\* CameraHandler.stop
camera_stop(c) == [capture |-> "none", is_running |-> FALSE, current_frame |-> "none"]

\* the thread objects that can be created: not running and not the update_thread
\* that the other tab still refers to
FreeThreads(other) == {t \in ThreadIds : ~Live(t) /\ t # other}

\* the thread object that threading.Thread(...) creates
NewThread(other) == CHOOSE t \in FreeThreads(other) : \A u \in FreeThreads(other) : t <= u

\* threading.Thread(target=self._update_camera_feed).start()
Spawn(t, owner) == threads' = [threads EXCEPT ![t] = [owner |-> owner, pc |-> "check"]]

gateRest ==
  <<students, attendance, now, recent_recognitions, o_pc, o_sid, o_time, o_outcome, o_marked>>

notCam == <<gateVars, recogVars, raceVars, fileVars>>

\* _toggle_recognition that also ends the capture loop
toggle_recognition_restarts(tab) ==
  [tab EXCEPT !.recognition_active = ~@, !.is_updating = FALSE]

\* AttendanceTab._toggle_recognition: the tab after the call
toggle_recognition(tab) == [tab EXCEPT !.recognition_active = ~@]

\* _stop_camera that leaves recognition as it is
stop_recognition_skipped(tab) == tab

\* _stop_camera, lines 260-262: recognition is stopped first
stop_recognition(tab) == IF tab.recognition_active THEN toggle_recognition(tab) ELSE tab

\* AttendanceTab._start_camera (from _toggle_camera while camera_active is false)
AttStartCamera(opened) ==
  /\ ui = "idle"
  /\ ~att_tab.camera_active
  /\ cam' = camera_start(cam, opened)
  /\ IF opened
       THEN /\ FreeThreads(reg_tab.update_thread) # {}
            /\ Spawn(NewThread(reg_tab.update_thread), "att")
            /\ att_tab' = [att_tab EXCEPT !.camera_active = TRUE, !.is_updating = TRUE,
                                          !.update_thread = NewThread(reg_tab.update_thread)]
       ELSE UNCHANGED <<att_tab, threads>>
  /\ cam_step' = [op |-> "att_start", opened |-> opened]
  /\ UNCHANGED <<reg_tab, ui, notCam>>

\* AttendanceTab._stop_camera up to the join (from _toggle_camera while camera_active)
AttStopCamera ==
  /\ ui = "idle"
  /\ att_tab.camera_active
  /\ att_tab' = [stop_recognition(att_tab) EXCEPT !.is_updating = FALSE]
  /\ ui' = "att_join"
  /\ cam_step' = [op |-> "att_stop", recognizing |-> att_tab.recognition_active]
  /\ UNCHANGED <<cam, reg_tab, threads, notCam>>

\* AttendanceTab._stop_camera from the join on: the thread has ended or the
\* timeout of 1 second has passed
AttStopCameraJoined ==
  /\ ui = "att_join"
  /\ cam' = camera_stop(cam)
  /\ att_tab' = [att_tab EXCEPT !.camera_active = FALSE]
  /\ ui' = "idle"
  /\ cam_step' = CamStep("att_stopped")
  /\ UNCHANGED <<reg_tab, threads, notCam>>

\* AttendanceTab._toggle_recognition (the button is enabled between start and stop)
AttToggleRecognition ==
  /\ ui = "idle"
  /\ att_tab.camera_active
  /\ att_tab' = toggle_recognition(att_tab)
  /\ cam_step' = CamStep("toggle")
  /\ UNCHANGED <<cam, reg_tab, threads, ui, notCam>>

\* RegisterTab._start_camera
RegStartCamera(opened) ==
  /\ ui = "idle"
  /\ ~reg_tab.camera_active
  /\ cam' = camera_start(cam, opened)
  /\ IF opened
       THEN /\ FreeThreads(att_tab.update_thread) # {}
            /\ Spawn(NewThread(att_tab.update_thread), "reg")
            /\ reg_tab' = [reg_tab EXCEPT !.camera_active = TRUE, !.is_updating = TRUE,
                                          !.update_thread = NewThread(att_tab.update_thread)]
       ELSE UNCHANGED <<reg_tab, threads>>
  /\ cam_step' = [op |-> "reg_start", opened |-> opened]
  /\ UNCHANGED <<att_tab, ui, notCam>>

\* RegisterTab._stop_camera up to the join
RegStopCamera ==
  /\ ui = "idle"
  /\ reg_tab.camera_active
  /\ reg_tab' = [reg_tab EXCEPT !.is_updating = FALSE]
  /\ ui' = "reg_join"
  /\ cam_step' = CamStep("reg_stop")
  /\ UNCHANGED <<cam, att_tab, threads, notCam>>

\* RegisterTab._stop_camera from the join on
RegStopCameraJoined ==
  /\ ui = "reg_join"
  /\ cam' = camera_stop(cam)
  /\ reg_tab' = [reg_tab EXCEPT !.camera_active = FALSE]
  /\ ui' = "idle"
  /\ cam_step' = CamStep("reg_stopped")
  /\ UNCHANGED <<att_tab, threads, notCam>>

\* the loop condition of _update_camera_feed always true
KeepsRunning_forever(owner) == TRUE

\* the loop condition of _update_camera_feed of the tab that started the thread
KeepsRunning(owner) ==
  IF owner = "att" THEN att_tab.is_updating /\ att_tab.camera_active
  ELSE reg_tab.is_updating /\ reg_tab.camera_active

\* the threads that are between the loop condition and the recognize_faces call
InFlight == Cardinality({t \in ThreadIds : threads[t].pc \in {"read", "store", "recog"}})

\* _update_camera_feed: the while condition is evaluated
ThreadCheck(t) ==
  /\ threads[t].pc = "check"
  /\ IF KeepsRunning(threads[t].owner)
       THEN /\ frame_count + InFlight < MaxFrames
            /\ threads' = [threads EXCEPT ![t].pc = "read"]
       ELSE threads' = [threads EXCEPT ![t].pc = "dead"]
  /\ cam_step' = [op |-> "check", thread |-> t]
  /\ UNCHANGED <<cam, att_tab, reg_tab, ui, notCam>>

\* CameraHandler.read_frame, lines 70-75: a frame was read; ret is what
\* capture.read() answers
read_frame(c, ret) == c.is_running /\ c.capture = "open" /\ ret

\* a loop that ends when read_frame returns no frame
after_read_break(frame) == IF frame THEN "store" ELSE "dead"

\* _update_camera_feed, line 306: without a frame the iteration is over
after_read(frame) == IF frame THEN "store" ELSE "check"

\* _update_camera_feed: read_frame up to the return of capture.read()
ThreadRead(t, ret) ==
  /\ threads[t].pc = "read"
  /\ threads' = [threads EXCEPT ![t].pc = after_read(read_frame(cam, ret))]
  /\ cam_step' = [op |-> "read", thread |-> t, frame |-> read_frame(cam, ret)]
  /\ UNCHANGED <<cam, att_tab, reg_tab, ui, notCam>>

\* CameraHandler.read_frame, lines 76-78: the frame that was read is stored as
\* current_frame and returned
ThreadStore(t) ==
  /\ threads[t].pc = "store"
  /\ cam' = [cam EXCEPT !.current_frame = "frame"]
  /\ threads' = [threads EXCEPT ![t].pc = "recog"]
  /\ cam_step' = [op |-> "store", thread |-> t]
  /\ UNCHANGED <<att_tab, reg_tab, ui, notCam>>

\* an except branch that also resets the capture state of the tab
on_exception_reset(tab) == [tab EXCEPT !.camera_active = FALSE, !.is_updating = FALSE]

\* _update_camera_feed, lines 363-365 (register tab lines 277-279): the except
\* branch logs and breaks; the tab after it
on_exception(tab) == tab

\* the tabs after a step of thread t that raised or did not
tabs_after(t, raised) ==
  [att |-> IF raised /\ threads[t].owner = "att" THEN on_exception(att_tab) ELSE att_tab,
   reg |-> IF raised /\ threads[t].owner = "reg" THEN on_exception(reg_tab) ELSE reg_tab]

\* the student ids offered, with an offer for every result
offers_of_all(res) == [i \in 1..Len(res) |-> res[i].student_id]

\* the student ids that the loop over the results hands to
\* _mark_attendance_for_student: result['is_known'] and student_id
offers_of(res) ==
  LET IsOffered(r) == r.is_known /\ r.student_id # NoId
      kept == SelectSeq(res, IsOffered)
  IN [i \in 1..Len(kept) |-> kept[i].student_id]

\* _update_camera_feed, attendance tab lines 309-351 (register tab lines 259-266):
\* recognition if it is enabled, the offers and the labels.  raised: a statement
\* outside recognize_faces raised, which leaves the loop
ThreadRecognize(t, faces, detector_fails, raised) ==
  /\ threads[t].pc = "recog"
  /\ IF threads[t].owner = "att" /\ att_tab.recognition_active
       THEN /\ RecognizeFaces(faces, detector_fails)
            /\ cam_step' = [op |-> "recognize", thread |-> t, enabled |-> TRUE,
                            detector_fails |-> detector_fails, raised |-> raised,
                            offered |-> offers_of(results')]
       ELSE /\ faces = <<>> /\ ~detector_fails
            /\ cam_step' = [op |-> "recognize", thread |-> t, enabled |-> FALSE,
                            detector_fails |-> FALSE, raised |-> raised, offered |-> <<>>]
            /\ UNCHANGED <<recogVars, last_step>>
  /\ threads' = [threads EXCEPT ![t].pc = IF raised THEN "dead" ELSE "body"]
  /\ att_tab' = tabs_after(t, raised).att
  /\ reg_tab' = tabs_after(t, raised).reg
  /\ UNCHANGED <<cam, ui, gateRest, raceVars, fileVars>>

\* _update_camera_feed, lines 353-361: the frame is published to the display;
\* raised says that a statement raised, which leaves the loop
ThreadBody(t, raised) ==
  /\ threads[t].pc = "body"
  /\ threads' = [threads EXCEPT ![t].pc = IF raised THEN "dead" ELSE "check"]
  /\ cam_step' = [op |-> "publish", thread |-> t, raised |-> raised]
  /\ att_tab' = tabs_after(t, raised).att
  /\ reg_tab' = tabs_after(t, raised).reg
  /\ UNCHANGED <<cam, ui, notCam>>

\* ------------------------------------------------------------ specifications
\* the attendance gate and the storage layer; the capture thread offers, the UI
\* thread enters attendance by hand and registers students
Init ==
  /\ GateInit
  /\ RecogInit({DefaultTolerance}, {2})
  /\ RaceInit
  /\ CamInit

Next == GateNext /\ UNCHANGED <<recogVars, raceVars, camVars, fileVars>>

Spec == Init /\ [][Next]_vars

\* the recognition pipeline called from one thread
InitRecog ==
  /\ GateInit
  /\ RecogInit(InitTolerances, 1..MaxStride)
  /\ RaceInit
  /\ CamInit

NextRecog ==
  /\ \/ \E faces \in Faces, detector_fails \in BOOLEAN : RecognizeFaces(faces, detector_fails)
     \/ \E studs \in ListsOf(RecogStudents, MaxGallery) : LoadKnownFaces(studs)
     \/ \E t \in ToleranceInputs : set_tolerance(t)
     \/ reset_frame_count
  /\ UNCHANGED <<students, attendance, now, recent_recognitions, o_pc, o_sid, o_time,
                 o_outcome, o_marked, raceVars, camVars, fileVars>>

SpecRecog == InitRecog /\ [][NextRecog]_vars

\* the capture thread recognizing while the UI thread registers students and
\* reloads the gallery
InitReload ==
  /\ GateInit
  /\ RecogInit({DefaultTolerance}, 1..2)
  /\ RaceInit
  /\ CamInit

NextReload ==
  \/ \E probe \in Probes : R_Begin(probe)
  \/ R_CompareFaces
  \/ R_FaceDistance
  \/ R_Name
  \/ R_Id
  \/ \E rec \in Roster : RegisterStudent(rec)
  \/ ReloadFaces
  \/ L_Step

SpecReload == InitReload /\ [][NextReload]_vars

\* the two tabs that share one CameraHandler, and their capture threads; the
\* students are registered and their faces were loaded at startup
InitCamera ==
  /\ students = Roster
  /\ photos = StoredPhotos(Roster)
  /\ attendance = [k \in Keys |-> <<>>]
  /\ now = 0
  /\ recent_recognitions = <<>>
  /\ o_pc = "idle"
  /\ o_sid = 0
  /\ o_time = 0
  /\ o_outcome = "None"
  /\ o_marked = FALSE
  /\ last_step = OtherStep
  /\ known_face_encodings = load_known_faces(get_all_students(Roster)).encodings
  /\ known_face_names = load_known_faces(get_all_students(Roster)).names
  /\ known_face_ids = load_known_faces(get_all_students(Roster)).ids
  /\ tolerance = DefaultTolerance
  /\ process_every_n_frames = 2
  /\ frame_count = 0
  /\ results = <<>>
  /\ r_processed = FALSE
  /\ last_load = NeverLoaded
  /\ RaceInit
  /\ CamInit

NextCamera ==
  \/ \E opened \in BOOLEAN : AttStartCamera(opened)
  \/ AttStopCamera
  \/ AttStopCameraJoined
  \/ AttToggleRecognition
  \/ \E opened \in BOOLEAN : RegStartCamera(opened)
  \/ RegStopCamera
  \/ RegStopCameraJoined
  \/ \E t \in ThreadIds : ThreadCheck(t)
  \/ \E t \in ThreadIds, ret \in BOOLEAN : ThreadRead(t, ret)
  \/ \E t \in ThreadIds : ThreadStore(t)
  \/ \E t \in ThreadIds, faces \in CamFaces, detector_fails \in BOOLEAN, raised \in BOOLEAN :
       ThreadRecognize(t, faces, detector_fails, raised)
  \/ \E t \in ThreadIds, raised \in BOOLEAN : ThreadBody(t, raised)

SpecCamera == InitCamera /\ [][NextCamera]_vars

\* the attendance tab alone with its capture threads, every live thread being
\* scheduled again and again
NextCameraFair ==
  \/ \E opened \in BOOLEAN : AttStartCamera(opened)
  \/ AttStopCamera
  \/ AttStopCameraJoined
  \/ AttToggleRecognition
  \/ \E t \in ThreadIds : ThreadCheck(t)
  \/ \E t \in ThreadIds, ret \in BOOLEAN : ThreadRead(t, ret)
  \/ \E t \in ThreadIds : ThreadStore(t)
  \/ \E t \in ThreadIds, faces \in CamFaces, detector_fails \in BOOLEAN, raised \in BOOLEAN :
       ThreadRecognize(t, faces, detector_fails, raised)
  \/ \E t \in ThreadIds, raised \in BOOLEAN : ThreadBody(t, raised)

\* one step of the capture thread t
ThreadStep(t) ==
  \/ ThreadCheck(t)
  \/ \E ret \in BOOLEAN : ThreadRead(t, ret)
  \/ ThreadStore(t)
  \/ \E faces \in CamFaces, detector_fails \in BOOLEAN, raised \in BOOLEAN :
       ThreadRecognize(t, faces, detector_fails, raised)
  \/ \E raised \in BOOLEAN : ThreadBody(t, raised)

SpecCameraFair ==
  /\ InitCamera
  /\ [][NextCameraFair]_vars
  /\ \A t \in ThreadIds : WF_vars(ThreadStep(t))


\* ------------------------------------------------------------ claims
\* this step starts an offer (and ends it at once if the cooldown suppresses it)
OfferStarts == last_step' = OfferStep

\* this step ends an offer with an outcome
OfferEnds ==
  /\ o_pc' = "idle"
  /\ o_outcome' # "None"
  /\ (o_pc # "idle" \/ OfferStarts)

\* C1: in every reachable state the attendance table holds at most one row per
\* (student_id, date), whatever offers, manual entries and restarts happened.
C1_OneRecordPerStudentDay == \A k \in Keys : Len(attendance[k]) <= 1

\* C1 witness: an offer whose insert raced with a manual entry for the same day
\* and was rejected as a duplicate.
C1_Witness ==
  /\ last_step.op = "insert"
  /\ last_step.dup
  /\ o_outcome = "WriteFailed"
  /\ Len(attendance[<<last_step.student_id, last_step.date>>]) = 1

\* C2 (as claimed): an offer that follows a finished offer for the same student
\* by less than cooldown_seconds is suppressed by the cooldown, whatever the
\* outcome of the first offer was, and reaches no storage call.
C2_SecondOfferSuppressed ==
  [][(/\ OfferStarts
      /\ o_outcome # "None"
      /\ o_sid' = o_sid
      /\ o_time' - o_time < cooldown_seconds)
     => (o_outcome' = "SuppressedCooldown" /\ o_pc' = "idle")]_vars

\* C2 (amended): when the first offer returned Marked, an offer for the same
\* student less than cooldown_seconds later is suppressed by the cooldown: it ends
\* at once, with no storage call and no change of storage or buffer.
C2_SecondOfferSuppressedAfterMarked ==
  [][(/\ OfferStarts
      /\ o_outcome = "Marked"
      /\ o_sid' = o_sid
      /\ o_time' - o_time < cooldown_seconds)
     => (/\ o_outcome' = "SuppressedCooldown"
         /\ o_pc' = "idle"
         /\ attendance' = attendance
         /\ recent_recognitions' = recent_recognitions)]_vars

\* C2 witness: an offer suppressed by the entry that the preceding Marked offer
\* of the same student pushed less than cooldown_seconds before.
C2_Witness ==
  /\ last_step = OfferStep
  /\ o_outcome = "SuppressedCooldown"
  /\ Len(recent_recognitions) > 0
  /\ recent_recognitions[Len(recent_recognitions)][1] = o_sid
  /\ o_time - recent_recognitions[Len(recent_recognitions)][2] < cooldown_seconds
  /\ o_time > recent_recognitions[Len(recent_recognitions)][2]

C9_StudentNotFound ==
  [][(/\ OfferEnds
      /\ ~Registered(students, o_sid')
      /\ ~HasEntry(recent_recognitions, o_sid'))
     => (/\ o_outcome' = "StudentNotFound"
         /\ attendance' = attendance
         /\ recent_recognitions' = recent_recognitions)]_vars

\* C9 witness: an offer for an unregistered student has ended as not found while
\* another student is registered.
C9_Witness ==
  /\ o_pc = "idle"
  /\ o_outcome = "StudentNotFound"
  /\ ~Registered(students, o_sid)
  /\ students # {}
  /\ \A k \in Keys : k[1] = o_sid => ~HasRecord(attendance, k[1], k[2])

\* C10: an insert attempted for a (student_id, date) that already has a record,
\* by an offer or by a manual entry, returns False and leaves the whole table
\* (the existing record's time and status and every other record) unchanged.
C10_DuplicateInsertRejected ==
  [][(/\ last_step'.op = "insert"
      /\ HasRecord(attendance, last_step'.student_id, last_step'.date))
     => (~last_step'.ok /\ attendance' = attendance)]_vars

\* C10 witness: a manual entry (status Late) was attempted on a day for which an
\* offer had already stored a Present record; the Present record is still there.
C10_Witness ==
  /\ last_step.op = "insert"
  /\ last_step.dup
  /\ ~last_step.ok
  /\ o_pc # "insert"
  /\ o_outcome = "Marked"
  /\ attendance[<<last_step.student_id, last_step.date>>][1].status = "Present"
  /\ attendance[<<last_step.student_id, last_step.date>>][1].time > 0

\* the distance between a probe and the gallery entry at index i
EntryDistance(i, probe) == Abs(known_face_encodings[i] - probe)

GalleryIndices == 1..Len(known_face_encodings)

\* the smallest distance between a probe and a (non-empty) gallery
MinDistance(probe) ==
  CHOOSE m \in {EntryDistance(i, probe) : i \in GalleryIndices} :
    \A i \in GalleryIndices : m <= EntryDistance(i, probe)

ResultsOfCall == {results'[i] : i \in 1..Len(results')}

\* C6: recognize_faces never reports a known identity whose gallery entry is
\* farther from the probe than the tolerance in force.
C6_MatchWithinTolerance ==
  [][last_step' = RecognizeStep =>
       \A r \in ResultsOfCall :
         r.is_known =>
           \E i \in GalleryIndices :
             /\ known_face_ids[i] = r.student_id
             /\ EntryDistance(i, r.probe) <= tolerance]_vars

\* C6 witness: with an entry outside the tolerance in the gallery, a face was
\* reported as known.
C6_Witness ==
  /\ last_step = RecognizeStep
  /\ \E i \in 1..Len(results) :
       /\ results[i].is_known
       /\ \E j \in GalleryIndices : EntryDistance(j, results[i].probe) > tolerance

\* C7: closest wins.  A face is reported as known iff the gallery is non-empty
\* and its smallest distance is at or below the tolerance; the identity reported
\* is that of an entry at the smallest distance and the confidence is 1 minus
\* that distance; otherwise the face is unknown with confidence 0.
C7_ClosestWins ==
  [][(last_step' = RecognizeStep /\ r_processed' /\ results' # <<>>) =>
       \A r \in ResultsOfCall :
         IF GalleryIndices # {} /\ MinDistance(r.probe) <= tolerance
           THEN /\ r.is_known
                /\ r.confidence = DistUnit - MinDistance(r.probe)
                /\ \E i \in GalleryIndices :
                     /\ EntryDistance(i, r.probe) = MinDistance(r.probe)
                     /\ known_face_ids[i] = r.student_id
                     /\ known_face_names[i] = r.name
           ELSE /\ ~r.is_known
                /\ r.student_id = NoId
                /\ r.name = UnknownName
                /\ r.confidence = 0]_vars

\* C7 witness: tolerance 0.6, entries at distance 0.55 (listed first) and 0.4 of
\* the probe; the 0.4 entry is reported with confidence 0.6.
C7_Witness ==
  /\ last_step = RecognizeStep
  /\ tolerance = DefaultTolerance
  /\ known_face_encodings = <<19, 0>>
  /\ \E i \in 1..Len(results) :
       /\ results[i].probe = 8
       /\ results[i].student_id = 1
       /\ results[i].confidence = 12

\* C8: every recognize_faces call increments the frame counter by exactly one;
\* the frame at counter position k is processed iff k mod stride = 0 and a
\* skipped frame returns the empty list.
C8_FrameSampling ==
  [][last_step' = RecognizeStep =>
       /\ frame_count' = frame_count + 1
       /\ r_processed' <=> (frame_count' % process_every_n_frames = 0)
       /\ ~r_processed' => results' = <<>>]_vars

\* C8 witness: stride 2, the fourth frame has been processed and returned a result.
C8_Witness ==
  /\ last_step = RecognizeStep
  /\ process_every_n_frames = 2
  /\ frame_count = 4
  /\ r_processed
  /\ results # <<>>

\* C4 (as claimed): every match that recognize_faces reports pairs the matched
\* embedding with the student_id and the name of the same gallery entry, that is
\* of one student record, also when a reload runs during the call.
C4_NoPartialUpdate ==
  \A i \in 1..Len(results) :
    results[i].is_known =>
      \E s \in Roster :
        /\ s.face_encoding = results[i].matched
        /\ s.face_encoding = results[i].entry
        /\ s.student_id = results[i].student_id
        /\ s.name = results[i].name

\* C5 (as claimed): at any time at most one capture thread is running on the
\* CameraHandler that the attendance tab and the register tab share.
C5_OneCaptureThread == Cardinality({t \in ThreadIds : Live(t)}) <= 1

\* C17: set_tolerance(t) with t outside [0.3, 1.0] returns False and leaves the
\* tolerance (what get_tolerance returns) as it was; with 0.3 <= t <= 1.0, bounds
\* included, it returns True and the tolerance is t.
C17_SetToleranceRange ==
  [][last_step'.op = "set_tolerance" =>
       IF MinTolerance <= last_step'.value /\ last_step'.value <= MaxTolerance
         THEN last_step'.ok /\ tolerance' = last_step'.value
         ELSE ~last_step'.ok /\ tolerance' = tolerance]_vars

\* C17 witness: after set_tolerance(1.0) was accepted, set_tolerance(1.05) was
\* rejected and the tolerance is still 1.0.
C17_Witness ==
  /\ last_step = ToleranceStep(MaxTolerance + 1, FALSE)
  /\ tolerance = MaxTolerance

\* the outcome of matching a probe against the three lists given
OutcomeOf(encs, names, ids, probe) == match_face(encs, encs, names, ids, probe, tolerance)

\* C18: a load_known_faces call that repeats the call before it, with the same
\* student sequence, leaves the gallery as the first call left it (same entries
\* in the same order), so every probe gets the same outcome and confidence.
C18_LoadIdempotent ==
  [][(last_step'.op = "load" /\ last_step'.again) =>
       /\ known_face_encodings' = known_face_encodings
       /\ known_face_names' = known_face_names
       /\ known_face_ids' = known_face_ids
       /\ \A p \in Probes :
            OutcomeOf(known_face_encodings', known_face_names', known_face_ids', p)
              = OutcomeOf(known_face_encodings, known_face_names, known_face_ids, p)]_vars

\* C18 witness: a sequence of three students, one of them without embedding, was
\* loaded twice in a row; the gallery holds the two entries of one load.
C18_Witness ==
  /\ last_step.op = "load"
  /\ last_step.again
  /\ Len(last_step.studs) = 3
  /\ Len(known_face_encodings) = 2

\* C19: after a load_known_faces call with no student that has an embedding, the
\* gallery is empty and every probe of every later recognize_faces call is
\* reported as unknown, whatever the tolerance and the gallery before.
C19_EmptyGalleryUnknown ==
  [][/\ (last_step'.op = "load" /\ last_load'.none) => known_face_encodings' = <<>>
     /\ (last_step' = RecognizeStep /\ last_load.none) =>
          \A r \in ResultsOfCall :
            /\ ~r.is_known
            /\ r.student_id = NoId
            /\ r.name = UnknownName
            /\ r.confidence = 0]_vars

\* C19 witness: a gallery of two entries was replaced by an empty one; at
\* tolerance 1.0 a probe equal to one of the former entries is reported as unknown.
C19_Witness ==
  /\ last_step = RecognizeStep
  /\ last_load.none
  /\ last_load.replaced
  /\ tolerance = MaxTolerance
  /\ \E i \in 1..Len(results) : results[i].probe = 0 /\ ~results[i].is_known

\* C14: under fair scheduling of the capture threads, when the attendance tab's
\* stop has been invoked and no start follows, every capture thread of the tab
\* eventually exits, also when stop returned before the thread had exited.
C14_CycleEventuallyExits ==
  <>[](~att_tab.is_updating) =>
    <>[](\A t \in ThreadIds : threads[t].owner = "att" => ~Live(t))

\* C14 witness: stop has returned (after the join timed out) while the capture
\* thread of the tab is still inside an iteration.
C14_Witness ==
  /\ cam_step.op = "att_stopped"
  /\ ~att_tab.camera_active
  /\ \E t \in ThreadIds : threads[t].owner = "att" /\ threads[t].pc = "body"

\* a step of a capture thread in which the handling of the frame failed: no frame
\* was read, the detector failed, or a statement of the iteration raised
FrameFailure ==
  \/ cam_step'.op = "read" /\ ~cam_step'.frame
  \/ cam_step'.op = "recognize" /\ (cam_step'.detector_fails \/ cam_step'.raised)
  \/ cam_step'.op = "publish" /\ cam_step'.raised

\* C11 (as claimed): after any failure while handling one frame the capture
\* thread is still inside its loop and goes on to the next frame.
C11_FailureKeepsStreaming ==
  [][FrameFailure => threads'[cam_step'.thread].pc \in {"check", "read", "store", "recog", "body"}]_vars

\* C12: a read_frame that returns no frame ends the iteration without a
\* recognize_faces call; a detector failure inside recognize_faces gives an
\* empty result and no offer.  Neither ends the capture loop, writes attendance
\* or changes the gallery or the tolerance.
C12_TransientFailureSkipsFrame ==
  [][/\ (cam_step'.op = "read" /\ ~cam_step'.frame) =>
          /\ threads'[cam_step'.thread].pc = "check"
          /\ UNCHANGED <<recogVars, attendance, recent_recognitions>>
     /\ (cam_step'.op = "recognize" /\ cam_step'.detector_fails /\ ~cam_step'.raised) =>
          /\ results' = <<>>
          /\ cam_step'.offered = <<>>
          /\ threads'[cam_step'.thread].pc = "body"
          /\ UNCHANGED <<known_face_encodings, known_face_names, known_face_ids, tolerance,
                         attendance, recent_recognitions>>]_vars

\* C12 witness: after the second frame was processed with an empty result, a
\* read of the attendance tab's thread returned no frame; the tab is still
\* active and the thread is back at the loop condition.
C12_Witness ==
  /\ cam_step.op = "read"
  /\ ~cam_step.frame
  /\ threads[cam_step.thread].pc = "check"
  /\ threads[cam_step.thread].owner = "att"
  /\ att_tab.camera_active /\ att_tab.recognition_active
  /\ cam.is_running
  /\ r_processed /\ results = <<>>
  /\ frame_count = 2

C15_FailedStartStaysStopped ==
  [][(cam_step'.op = "att_start" /\ ~cam_step'.opened) =>
       /\ ~att_tab'.camera_active
       /\ ~cam'.is_running
       /\ threads' = threads]_vars

\* C16: every student id that an iteration offers to _mark_attendance_for_student
\* is the student_id of a known result that recognize_faces returned in this
\* iteration for a processed frame, recognition being enabled.
C16_OffersOnlyKnown ==
  [][cam_step'.op = "recognize" =>
       \A i \in 1..Len(cam_step'.offered) :
         /\ att_tab.recognition_active
         /\ cam_step'.enabled
         /\ r_processed'
         /\ \E r \in ResultsOfCall :
              r.is_known /\ r.student_id # NoId /\ r.student_id = cam_step'.offered[i]]_vars

\* C16 witness: a processed frame showed student 1 beside a stranger; the one
\* offer of the iteration is for student 1.
C16_Witness ==
  /\ cam_step.op = "recognize"
  /\ cam_step.offered = <<1>>
  /\ Len(results) = 2
  /\ r_processed

\* C20: _toggle_recognition changes the recognition flag and nothing else: the
\* tab stays active, the handler and the capture threads are as they were, and
\* so are the cooldown buffer, the gallery and the frame counter.
C20_ToggleChangesOnlyFlag ==
  [][cam_step'.op = "toggle" =>
       /\ att_tab' = [att_tab EXCEPT !.recognition_active = ~@]
       /\ att_tab.camera_active /\ att_tab'.camera_active
       /\ UNCHANGED <<cam, threads, reg_tab, recent_recognitions, known_face_encodings,
                      known_face_names, known_face_ids, tolerance, frame_count>>]_vars

\* C20 witness: recognition was disabled after frames had been counted; the
\* handler is open and the capture thread of the tab is inside an iteration.
C20_Witness ==
  /\ cam_step.op = "toggle"
  /\ ~att_tab.recognition_active
  /\ frame_count > 0
  /\ cam.capture = "open"
  /\ cam.is_running
  /\ \E t \in ThreadIds : threads[t].owner = "att" /\ threads[t].pc = "recog"

\* this step is a step of the offer in progress (or starts one)
OfferStepTaken ==
  /\ (o_pc' # o_pc \/ OfferStarts)
  /\ ~(o_pc' = "idle" /\ o_outcome' = "None")

\* ------------------------------------------------------------ registration
\* what the register form can hold: the roster, and a second person who enters
\* the student_id of the first
RegInputs == Roster \cup {[student_id |-> 1, name |-> 3, face_encoding |-> 8]}

\* the INSERT fails on a student_id that is already stored
StudentIdTaken(studs, sid) == Registered(studs, sid)

\* DatabaseManager.add_student on a table with no constraint on student_id
db_add_student_noconstraint(studs, rec, fail) ==
  IF fail
    THEN [ok |-> FALSE, studs |-> studs]
    ELSE [ok |-> TRUE, studs |-> studs \cup {rec}]

\* DatabaseManager.add_student: the result and the table after the call; fail says
\* that the INSERT raised another error
db_add_student(studs, rec, fail) ==
  IF StudentIdTaken(studs, rec.student_id) \/ fail
    THEN [ok |-> FALSE, studs |-> studs]
    ELSE [ok |-> TRUE, studs |-> studs \cup {rec}]

\* StudentManager.register_student: valid is what the validators answer,
\* check_fails says that the query of student_exists raised (it then answers
\* False)
register_student(studs, rec, valid, check_fails, fail) ==
  IF ~valid
    THEN [ok |-> FALSE, studs |-> studs]
    ELSE IF ~check_fails /\ student_exists(studs, rec.student_id)
      THEN [ok |-> FALSE, studs |-> studs]
      ELSE db_add_student(studs, rec, fail)

RegisterStep(rec, existed, ok) ==
  [op |-> "register", rec |-> rec, existed |-> existed, ok |-> ok]

DeleteStep(sid, ok) == [op |-> "delete", student_id |-> sid, ok |-> ok]

\* RegisterTab._register_student with a complete form: the photo is written, the
\* student is registered and, after a success, the gallery is loaded again
RegisterTab_register_student(rec, frame, valid, check_fails, fail) ==
  /\ LET r == register_student(students, rec, valid, check_fails, fail)
         g == load_known_faces(get_all_students(r.studs))
     IN /\ photos' = save_photo(photos, rec.student_id, frame)
        /\ students' = r.studs
        /\ known_face_encodings' = IF r.ok THEN g.encodings ELSE known_face_encodings
        /\ known_face_names' = IF r.ok THEN g.names ELSE known_face_names
        /\ known_face_ids' = IF r.ok THEN g.ids ELSE known_face_ids
        /\ last_load' = IF r.ok THEN [none |-> NoEmbedding(get_all_students(r.studs)),
                                      replaced |-> NoEmbedding(get_all_students(r.studs))
                                                     /\ known_face_encodings # <<>>]
                        ELSE last_load
        /\ last_step' = RegisterStep(rec, Registered(students, rec.student_id), r.ok)
  /\ UNCHANGED <<attendance, now, recent_recognitions, o_pc, o_sid, o_time, o_outcome,
                 o_marked, tolerance, process_every_n_frames, frame_count, results,
                 r_processed, raceVars, camVars>>

\* StudentManager.delete_student: the attendance rows and the student row are
\* deleted, then the photo file; fail says that the DELETE raised
delete_student(sid, fail) ==
  /\ IF student_exists(students, sid) /\ ~fail
       THEN /\ students' = {s \in students : s.student_id # sid}
            /\ attendance' = [k \in Keys |-> IF k[1] = sid THEN <<>> ELSE attendance[k]]
            /\ photos' = [photos EXCEPT ![sid] = NoPhoto]
            /\ last_step' = DeleteStep(sid, TRUE)
       ELSE /\ UNCHANGED <<students, attendance, photos>>
            /\ last_step' = DeleteStep(sid, FALSE)
  /\ UNCHANGED <<now, recent_recognitions, o_pc, o_sid, o_time, o_outcome, o_marked,
                 recogVars, raceVars, camVars>>

\* the UI thread registering and deleting students
InitStudents ==
  /\ GateInit
  /\ RecogInit({DefaultTolerance}, {2})
  /\ RaceInit
  /\ CamInit

NextStudents ==
  \/ \E rec \in RegInputs, frame \in Frames, valid \in BOOLEAN, check_fails \in BOOLEAN,
        fail \in BOOLEAN :
       RegisterTab_register_student(rec, frame, valid, check_fails, fail)
  \/ \E sid \in StudentIds, fail \in BOOLEAN : delete_student(sid, fail)
  \/ \E sid \in StudentIds, d \in Days, t \in ManualTimes, st \in ManualStatuses, fail \in BOOLEAN :
       manual_attendance_entry(sid, d, t, st, fail) /\ UNCHANGED <<recogVars, raceVars, camVars, fileVars>>

SpecStudents == InitStudents /\ [][NextStudents]_vars

\* C21: after any sequence of registrations and deletions no two student records
\* share a student_id, and a registration with a student_id that is already
\* stored is rejected and leaves the student records as they were.
C21_UniqueStudentId ==
  [][/\ \A a, b \in students' : a.student_id = b.student_id => a = b
     /\ (last_step'.op = "register" /\ last_step'.existed) =>
          /\ ~last_step'.ok
          /\ students' = students]_vars

\* C21 witness: after a student was deleted and both ids are stored again, a
\* registration with a stored student_id and other data has been rejected; the
\* stored record is the old one.
C21_Witness ==
  /\ last_step.op = "register"
  /\ last_step.existed
  /\ ~last_step.ok
  /\ last_step.rec \notin students
  /\ \E s \in students : s.student_id = last_step.rec.student_id
  /\ Cardinality(students) = Cardinality(StudentIds)

\* C30: a rejected registration leaves the stored data of the registered
\* students unchanged: the student records, the photo file of every registered
\* student, and the gallery.
C30_RejectedRegistrationChangesNothing ==
  [][(last_step'.op = "register" /\ ~last_step'.ok) =>
       /\ students' = students
       /\ \A sid \in StudentIds : Registered(students, sid) => photos'[sid] = photos[sid]
       /\ known_face_encodings' = known_face_encodings
       /\ known_face_names' = known_face_names
       /\ known_face_ids' = known_face_ids]_vars

\* C22: an offer stores a record exactly in its insert step, which is reached
\* only past the cooldown scan, the student_exists check and the
\* is_attendance_marked check, in this order; a successful insert adds exactly
\* the record (student_id, today, current time, Present), changes no other
\* record and makes the offer return Marked; no other step of an offer changes
\* the attendance table, and no other outcome follows a successful insert.
C22_MarkedExactlyWhenInserted ==
  [][OfferStepTaken =>
       /\ (o_pc = "insert" /\ last_step'.ok) =>
            /\ ~InCooldown(recent_recognitions, o_sid, o_time)
            /\ Registered(students, o_sid)
            /\ attendance[<<o_sid, Today(now)>>] = <<>>
            /\ attendance' = [attendance EXCEPT ![<<o_sid, Today(now)>>] =
                                <<[time |-> TimeOfDay(now), status |-> "Present"]>>]
            /\ o_pc' = "push"
       /\ ~(o_pc = "insert" /\ last_step'.ok) => attendance' = attendance
       /\ (o_outcome' = "Marked" /\ o_pc' = "idle") <=> o_pc = "push"
       /\ (o_outcome' = "AlreadyMarked" /\ o_pc' = "idle") => Registered(students, o_sid)
       /\ (o_pc = "exists" /\ ~Registered(students, o_sid)) =>
            (o_outcome' = "StudentNotFound" /\ o_pc' = "idle")]_vars

\* C22 witness: an offer has returned Marked; its Present record is stored beside
\* the record that a manual entry had stored for the other student.
C22_Witness ==
  /\ o_pc = "idle"
  /\ o_outcome = "Marked"
  /\ \E d \in Days :
       /\ Len(attendance[<<o_sid, d>>]) = 1
       /\ attendance[<<o_sid, d>>][1].status = "Present"
       /\ \E other \in StudentIds \ {o_sid} :
            /\ Len(attendance[<<other, d>>]) = 1
            /\ attendance[<<other, d>>][1].status = "Late"

\* C24: an offer is suppressed by the cooldown, in its first step and with the
\* attendance table untouched, if and only if the buffer holds an entry of the
\* same student_id whose age is strictly below cooldown_seconds; entries of other
\* students and entries aged cooldown_seconds or more never suppress.
C24_SuppressedIffRecentEntry ==
  [][OfferStarts =>
       /\ (o_outcome' = "SuppressedCooldown" /\ o_pc' = "idle") <=>
            (\E i \in 1..Len(recent_recognitions) :
                /\ recent_recognitions[i][1] = o_sid'
                /\ o_time' - recent_recognitions[i][2] < cooldown_seconds)
       /\ o_outcome' # "SuppressedCooldown" => o_pc' = "exists"
       /\ attendance' = attendance
       /\ recent_recognitions' = recent_recognitions]_vars

\* C24 witness: an offer has passed the cooldown scan although the buffer holds an
\* entry of the same student aged exactly cooldown_seconds and a younger entry of
\* another student.
C24_Witness ==
  /\ last_step = OfferStep
  /\ o_pc = "exists"
  /\ \E i \in 1..Len(recent_recognitions) :
       /\ recent_recognitions[i][1] = o_sid
       /\ o_time - recent_recognitions[i][2] = cooldown_seconds
  /\ \E i \in 1..Len(recent_recognitions) :
       /\ recent_recognitions[i][1] # o_sid
       /\ o_time - recent_recognitions[i][2] < cooldown_seconds

\* C25: when the insert of an offer fails, the offer ends there with the failure
\* outcome: no second insert is attempted, the attendance table and the cooldown
\* buffer are unchanged; and the next offer for the same student after a failed
\* one is not suppressed by the cooldown but goes on to storage again.
C25_FailedInsertNotBuffered ==
  [][/\ (last_step'.op = "insert" /\ last_step'.by = "offer" /\ ~last_step'.ok) =>
          /\ o_pc' = "idle"
          /\ o_outcome' = "WriteFailed"
          /\ attendance' = attendance
          /\ recent_recognitions' = recent_recognitions
     /\ (OfferStarts /\ o_outcome = "WriteFailed" /\ o_sid' = o_sid) =>
          /\ o_outcome' # "SuppressedCooldown"
          /\ o_pc' = "exists"]_vars

\* C25 witness: the insert of an offer has just failed although no record was
\* stored for the student today; the offer has ended with the failure outcome and
\* the buffer, which holds another student's entry, has no entry of the student.
C25_Witness ==
  /\ last_step = InsertStep("offer", o_sid, Today(now), FALSE, FALSE)
  /\ o_pc = "idle"
  /\ o_outcome = "WriteFailed"
  /\ ~HasRecord(attendance, o_sid, Today(now))
  /\ ~HasEntry(recent_recognitions, o_sid)
  /\ recent_recognitions # <<>>

\* ------------------------------------------------------------ a long-running capture
\* the buffer after the two students were marked on each of the last days, oldest
\* first: n entries, the youngest one day old
PastEntries(n) ==
  [i \in 1..n |-> <<((i - 1) % 2) + 1, 0 - ((n - i) \div 2 + 1) * DayLen>>]

\* the process has run for days and the buffer is full or one short of full
InitBuffer ==
  /\ students = Roster
  /\ photos = StoredPhotos(Roster)
  /\ attendance = [k \in Keys |-> <<>>]
  /\ now = 0
  /\ recent_recognitions \in {PastEntries(RecentMaxLen - 1), PastEntries(RecentMaxLen)}
  /\ o_pc = "idle"
  /\ o_sid = 0
  /\ o_time = 0
  /\ o_outcome = "None"
  /\ o_marked = FALSE
  /\ last_step = OtherStep
  /\ RecogInit({DefaultTolerance}, {2})
  /\ RaceInit
  /\ CamInit

\* the capture thread offering students while time passes
NextBuffer ==
  /\ \/ \E sid \in StudentIds : MarkAttendanceForStudent(sid)
     \/ AM_StudentExists
     \/ AM_IsAttendanceMarked
     \/ \E fail \in BOOLEAN : AM_MarkAttendance(fail)
     \/ RecordRecognition
     \/ Tick
  /\ UNCHANGED <<recogVars, raceVars, camVars, fileVars>>

SpecBuffer == InitBuffer /\ [][NextBuffer]_vars

\* C23: a step of an offer changes the cooldown buffer only when the offer
\* returns Marked, and then by appending exactly (student_id, time of the offer),
\* the oldest entry being evicted first when the buffer held RecentMaxLen
\* entries; every other step of an offer leaves the buffer unchanged, and the
\* buffer never holds more than RecentMaxLen entries.
C23_BufferOnlyOnMarked ==
  [][/\ OfferStepTaken =>
          IF o_outcome' = "Marked" /\ o_pc' = "idle"
            THEN recent_recognitions' =
                   Append(IF Len(recent_recognitions) = RecentMaxLen
                            THEN Tail(recent_recognitions)
                            ELSE recent_recognitions,
                          <<o_sid, o_time>>)
            ELSE recent_recognitions' = recent_recognitions
     /\ Len(recent_recognitions') <= RecentMaxLen]_vars

\* C23 witness: an offer has just returned Marked with a full buffer: the buffer
\* still holds RecentMaxLen entries, its youngest is the offer's, and an earlier
\* Marked offer of this run is in it too, so an old entry was evicted.
C23_Witness ==
  /\ o_pc = "idle"
  /\ o_outcome = "Marked"
  /\ last_step = OtherStep
  /\ Len(recent_recognitions) = RecentMaxLen
  /\ recent_recognitions[RecentMaxLen] = <<o_sid, o_time>>
  /\ recent_recognitions[RecentMaxLen - 1][2] >= 0
  /\ recent_recognitions[1] \notin {PastEntries(RecentMaxLen)[1], PastEntries(RecentMaxLen - 1)[1]}

\* C27: every recognition result is well formed: is_known holds exactly when a
\* student_id is present, a face that was not matched is named Unknown with no
\* student_id and confidence 0, and the confidence of every result lies between
\* 0 and 1 (DistUnit), whatever tolerance the module was constructed with.
C27_WellFormedResults ==
  \A i \in 1..Len(results) :
    /\ results[i].is_known <=> results[i].student_id # NoId
    /\ ~results[i].is_known =>
         /\ results[i].name = UnknownName
         /\ results[i].student_id = NoId
         /\ results[i].confidence = 0
    /\ results[i].confidence >= 0
    /\ results[i].confidence <= DistUnit

\* C26: when a capture cycle of the attendance tab ends with an exception, the
\* capture state is not reset: the tab's flags and the camera handler are as
\* before (camera_active true, the handle open) and the thread has ended; an
\* ended thread processes nothing any more, a capture thread of the tab is only
\* created by a start, and a start is only possible while camera_active is
\* false, which only a completed stop makes it.
C26_ExceptionLeavesCaptureState ==
  [][/\ (/\ cam_step'.op \in {"recognize", "publish"}
         /\ cam_step'.raised
         /\ threads[cam_step'.thread].owner = "att") =>
          /\ att_tab' = att_tab
          /\ cam' = cam
          /\ threads'[cam_step'.thread].pc = "dead"
     /\ \A t \in ThreadIds :
          (threads[t].pc = "dead" /\ threads'[t] # threads[t]) =>
             /\ cam_step'.op \in {"att_start", "reg_start"}
             /\ threads'[t].pc = "check"
     /\ cam_step'.op = "att_start" => ~att_tab.camera_active
     /\ (att_tab.camera_active /\ ~att_tab'.camera_active) => cam_step'.op = "att_stopped"]_vars

\* C26 witness: the only capture thread has ended with an exception while it
\* published a frame; the tab still says that the camera is active and is
\* updating, the handler is running with its handle open, and no thread is left.
C26_Witness ==
  /\ cam_step.op = "publish"
  /\ cam_step.raised
  /\ threads[cam_step.thread].owner = "att"
  /\ \A t \in ThreadIds : ~Live(t)
  /\ att_tab.camera_active /\ att_tab.is_updating
  /\ cam.is_running /\ cam.capture = "open"
  /\ ui = "idle"

C29_NoFrameAfterStop == ~cam.is_running => cam.current_frame = "none"

====
